---- MODULE Spec2Model ----
(***************************************************************************)
(* Model of crates/shared/src/redis/types.rs: RedisConnectionPool.         *)
(*                                                                         *)
(* SpecPool  : RedisConnectionPool::new / instantiate, the lifecycle of    *)
(*             the member connections of the two pools, and the            *)
(*             error-monitoring task with the availability flag.           *)
(* SpecRelay : subscribe_channel<T> / subscribe_channel_as_str, the relay  *)
(*             tasks they spawn, the publisher and the consumers.          *)
(* SpecClose, SpecLife : close_connections.  SpecUri : the connection URL. *)
(*                                                                         *)
(* SpecMetrics : crates/shared/src/middleware/incoming_request.rs, the     *)
(*             request-metrics middleware.                                 *)
(* SpecCallApi : crates/shared/src/tools/callapi.rs, call_api and          *)
(*             call_api_unwrapping_error.                                  *)
(* SpecGetter  : crates/macros/src/lib.rs, impl_getter.                    *)
(***************************************************************************)
EXTENDS Integers, Sequences, FiniteSets, TLC

\* ------------------------------------------------------------------ bounds
\* largest pool_size a settings record is given
MaxPoolSize == 2
\* reconnect_max_attempts of the settings
MaxAttempts == 1
\* largest reconnect_delay of the settings, in ms
MaxDelay == 1
\* how many times connections are lost in one run
MaxDisconnects == 2
\* how many transport-error events wait for the monitor at a time
MaxErrEvents == 2
\* how many subscribe calls are made on the pool
MaxSubs == 2
\* how many messages are published
MaxPublish == 2
\* broadcast_channel_capacity of the settings
BroadcastCap == 1
\* how many times a relay's recv() on a closed stream is followed
MaxClosedErrs == 1
\* how many times close_connections is called
MaxCloses == 2
\* longest cluster_urls list of a settings record
MaxNodes == 3

Pools == {"writer", "reader"}
Slots == 1..MaxPoolSize

VARIABLES
    replica_conf,   \* "Some" | "None": the Option<RedisSettings> argument of new
    pool_size_of,   \* pool_size of each settings record: "conf", "replica_conf" (0: no record)
    reconnect_max_attempts, \* reconnect_max_attempts of the settings
    reconnect_delay, \* reconnect_delay of the settings, in ms
    pool_size,      \* per set: the size its pool was created with (0: not created)
    clients,        \* per set: the client connections its pool was created with
    built_from,     \* history, per set: the settings record instantiate was given
    new_pc,         \* position of RedisConnectionPool::new
    new_result,     \* what new returned: "none" | "Ok" | "RedisConnectionError"
    pool_state,     \* per set: "none" | "built" | "owned" | "dropped"
    member,         \* per set and slot: state of the member connection
    attempts,       \* per set and slot: consecutive failed reconnect attempts
    waited,         \* per set and slot: ms passed since the connection was lost or an attempt failed
    join_handles,   \* Self.join_handles: sequence of <<set, slot>>
    available,      \* the availability flag
    monitor,        \* the on_error task: "off" | "wait"
    err_events,     \* transport-error events not yet seen by the monitor
    ndisc,          \* connection losses so far (bounded by MaxDisconnects)
    seen_down,      \* history: the pools the monitor last observed fully disconnected
    counter,        \* reader_pool's round-robin counter
    conn_subs,      \* per reader connection: the channels it is subscribed to
    sub_pc,         \* per subscribe call: "idle" | "subscribing" | "subscribed" | "failed" | "running"
    sub_arg,        \* per call: [channel, kind, conn] - the argument, the API variant, the picked connection
    sub_cmds,       \* per call: subscribe commands issued
    sub_result,     \* per call: "none" | "Ok" | "GetFailed"
    stream,         \* per call: message_stream, the messages its receiver has not taken yet
    lagged,         \* per call: the receiver was overrun and its next recv reports it
    relay_pc,       \* per call: the relay task: "off" | "recv" | "ended"
    recvd,          \* history, per call: the messages recv() returned to the relay
    queue,          \* per call: the unbounded mpsc queue between relay and consumer
    sent,           \* history, per call: every entry tx.send accepted
    send_errs,      \* history, per call: how many tx.send calls failed
    got,            \* history, per call: the entries the consumer has taken
    handle,         \* per call: the receive handle: "none" | "held" | "dropped"
    clock,          \* Utc::now()
    npub,           \* messages published so far (bounded by MaxPublish)
    closed,         \* the reader connections are gone: every message stream's sender is dropped
    closed_seen,    \* history, per call: how often recv() reported the stream closed (capped)
    arrived,        \* history, per call: the messages its connection was sent since its subscribe succeeded
    close_pc,       \* position of close_connections: "idle" | "quit1" | "quit2" | "drain" |
                    \*   "returning" | "done" | "panicked"
    close_calls,    \* calls of close_connections that have returned
    close_log,      \* history: per call of close_connections, its events in order
    close_snap,     \* history: per returned call, the pool's state when it returned
    draining,       \* the handles join_handles.drain(..) has still to yield
    uri_conf,       \* the settings the connection URL is built from
    uri_pc,         \* "idle" | "built" | "rebuilt"
    uri_out,        \* the URL built by instantiate and by get_config from uri_conf
    uri_other,      \* the same for settings that differ from uri_conf in cluster_urls only
    uri_parsed,     \* RedisConfig::from_url on the URL: "none" | "Ok" | the error returned
    uri_config,     \* the driver configuration built by instantiate and by get_config
    mw_n,           \* requests the middleware has been called with (bounded by MaxRequests)
    mw_pc,          \* the future call returned: "idle" | "pending" | "completed" | "returned" | "dropped"
    mw_req,         \* the ServiceRequest of the call
    mw_saved,       \* req_method and req_path, read before the inner service is called
    mw_inner,       \* what the inner service's future resolved to, "none" before
    mw_metrics,     \* history: the incoming_api! observations, each with its request number
    mw_done,        \* history: per finished request, the inner result and the result returned
    api_n,          \* invocations of call_api so far (bounded by MaxApiCalls)
    api_pc,         \* the invocation: "idle" | "sent" | "body" | "done" | "dropped"
    api_in,         \* the function called, its arguments, and whether the HTTP/2 client can be built
    api_sends,      \* history: how many times the invocation called request.send()
    api_resp,       \* what send().await resolved to
    api_observed,   \* history: the status labels of the invocation's call_external_api! observations
    api_result,     \* what the invocation returned
    gt_pc,          \* "source" | "rejected" | "expanded" | "built"
    gt_item,        \* the struct item the attribute is put on
    gt_gen,         \* the item the macro emits: its name and the type of its one field
    gt_self,        \* a value of the generated struct: its field self.0
    gt_orig,        \* history: the field the value was built with
    gt_calls,       \* history: what each call of inner() returned
    gt_heap         \* heap buffers allocated so far

poolVars == <<replica_conf, pool_size_of, reconnect_max_attempts, reconnect_delay, pool_size,
              clients, built_from, new_pc, new_result, pool_state, member,
              attempts, waited, join_handles, available, monitor, err_events, ndisc, seen_down>>

relayVars == <<counter, conn_subs, sub_pc, sub_arg, sub_cmds, sub_result, stream, lagged,
               relay_pc, recvd, queue, sent, send_errs, got, handle, clock, npub,
               closed, closed_seen, arrived>>

closeVars == <<close_pc, close_calls, close_log, close_snap, draining>>

uriVars == <<uri_conf, uri_pc, uri_out, uri_other, uri_parsed, uri_config>>

mwVars == <<mw_n, mw_pc, mw_req, mw_saved, mw_inner, mw_metrics, mw_done>>

apiVars == <<api_n, api_pc, api_in, api_sends, api_resp, api_observed, api_result>>

getterVars == <<gt_pc, gt_item, gt_gen, gt_self, gt_orig, gt_calls, gt_heap>>

toolVars == <<mwVars, apiVars, getterVars>>

vars == <<poolVars, relayVars, closeVars, uriVars, toolVars>>

\* the arguments of new: no step changes them
settingsVars == <<replica_conf, pool_size_of, reconnect_max_attempts, reconnect_delay>>

\* what no step of construction, member lifecycle or monitor touches
otherThanPool == <<relayVars, closeVars, uriVars, toolVars>>
\* what no step of a subscribe call, relay, publisher or consumer touches
otherThanRelay == <<poolVars, closeVars, uriVars, toolVars>>
\* the connection pool as a whole
redisVars == <<poolVars, relayVars, closeVars, uriVars>>

\* A member connection whose background connect task is still running.
LiveStates == {"Connecting", "Connected", "Disconnected", "Reconnecting", "Closing"}
\* A member that has completed its first connect (wait_for_connect resolved Ok).
ConnectedOnce == {"Connected", "Disconnected", "Reconnecting", "Terminal"}

Members(p) == 1..pool_size[p]

Live(p) == {i \in Members(p) : member[p][i] \in LiveStates}

\* pool.connect_pool(): one background connect task per member, handles in order
connect_pool(m, p, n) ==
    [m EXCEPT ![p] = [i \in Slots |-> IF i \in 1..n THEN "Connecting" ELSE "Absent"]]

\* the settings record each set's instantiate is given: the writer set always
\* conf, the reader set replica_conf when there is one and conf otherwise
writer_conf == "conf"
reader_conf == IF replica_conf = "Some" THEN "replica_conf" ELSE "conf"
conf_of(p) == IF p = "writer" THEN writer_conf ELSE reader_conf

\* faulty variant: the second pool is handed the clients of the first
RedisPool_new_shared(made, n) == [i \in 1..n |-> i]
\* RedisPool::new(config, .., conf.pool_size): n clients of its own; `made`
\* clients exist already
RedisPool_new(made, n) == [i \in 1..n |-> made + i]

connect_handles(p) == [i \in Members(p) |-> <<p, i>>]

\* faulty variant: the reader set's handles take the place of the writer set's
extend_replaces(hs, more) == more
\* join_handles.extend(reader_join_handles)
extend(hs, more) == hs \o more

\* The `?` on a failed instantiate: the pool value and its ConnectHandles go out
\* of scope.  Nothing calls quit, and dropping a JoinHandle detaches its task,
\* so the member connections are left as they are.
drop_pool(m, p) == m

\* pool.wait_for_connect(): Ok once every member has connected
wait_ok(p) == \A i \in Members(p) : member[p][i] \in ConnectedOnce
\* pool.wait_for_connect(): Err as soon as one member's connect has failed
wait_err(p) == \E i \in Members(p) : member[p][i] = "Failed"

\* the pool's aggregate connection state is "disconnected"
PoolDisconnected(p) ==
    /\ pool_state[p] = "owned"
    /\ \A i \in Members(p) : member[p][i] \in {"Disconnected", "Reconnecting", "Terminal"}

InitPool ==
    /\ replica_conf \in {"Some", "None"}
    /\ pool_size_of \in [{"conf", "replica_conf"} -> 0..MaxPoolSize]
    /\ pool_size_of["conf"] >= 1
    /\ pool_size_of["replica_conf"] >= 1 <=> replica_conf = "Some"
    /\ reconnect_max_attempts \in 0..MaxAttempts
    /\ reconnect_delay \in 0..MaxDelay
    /\ pool_size = [p \in Pools |-> 0]
    /\ clients = [p \in Pools |-> <<>>]
    /\ built_from = [p \in Pools |-> "none"]
    /\ new_pc = "start"
    /\ new_result = "none"
    /\ pool_state = [p \in Pools |-> "none"]
    /\ member = [p \in Pools |-> [i \in Slots |-> "Absent"]]
    /\ attempts = [p \in Pools |-> [i \in Slots |-> 0]]
    /\ waited = [p \in Pools |-> [i \in Slots |-> 0]]
    /\ join_handles = <<>>
    /\ available = TRUE
    /\ monitor = "off"
    /\ err_events = 0
    /\ ndisc = 0
    /\ seen_down = {}

\* new: Self::instantiate(&conf) up to its wait_for_connect().await
NewInstantiateWriter ==
    /\ new_pc = "start"
    /\ built_from' = [built_from EXCEPT !["writer"] = conf_of("writer")]
    /\ pool_size' = [pool_size EXCEPT !["writer"] = pool_size_of[conf_of("writer")]]
    /\ clients' = [clients EXCEPT !["writer"] = RedisPool_new(0, pool_size_of[conf_of("writer")])]
    /\ member' = connect_pool(member, "writer", pool_size_of[conf_of("writer")])
    /\ pool_state' = [pool_state EXCEPT !["writer"] = "built"]
    /\ new_pc' = "writer_wait"
    /\ UNCHANGED otherThanPool
    /\ UNCHANGED <<settingsVars, new_result, attempts, waited, join_handles,
                   available, monitor, err_events, ndisc, seen_down>>

\* new: the writer's wait_for_connect resolved Ok; Self::instantiate for the
\* reader set (replica_conf, or conf again) up to its wait_for_connect().await
NewInstantiateReader ==
    /\ new_pc = "writer_wait"
    /\ wait_ok("writer")
    /\ built_from' = [built_from EXCEPT !["reader"] = conf_of("reader")]
    /\ pool_size' = [pool_size EXCEPT !["reader"] = pool_size_of[conf_of("reader")]]
    /\ clients' = [clients EXCEPT !["reader"] =
                       RedisPool_new(Len(clients["writer"]), pool_size_of[conf_of("reader")])]
    /\ member' = connect_pool(member, "reader", pool_size_of[conf_of("reader")])
    /\ pool_state' = [pool_state EXCEPT !["reader"] = "built"]
    /\ join_handles' = connect_handles("writer")
    /\ new_pc' = "reader_wait"
    /\ UNCHANGED otherThanPool
    /\ UNCHANGED <<settingsVars, new_result, attempts, waited,
                   available, monitor, err_events, ndisc, seen_down>>

\* new: the writer's wait_for_connect failed; `?` returns the error
NewWriterFails ==
    /\ new_pc = "writer_wait"
    /\ wait_err("writer")
    /\ member' = drop_pool(member, "writer")
    /\ pool_state' = [pool_state EXCEPT !["writer"] = "dropped"]
    /\ new_pc' = "err"
    /\ new_result' = "RedisConnectionError"
    /\ UNCHANGED otherThanPool
    /\ UNCHANGED <<settingsVars, pool_size, clients, built_from, attempts, waited, join_handles,
                   available, monitor, err_events, ndisc, seen_down>>

\* new: the reader's wait_for_connect failed; `?` returns the error and the
\* writer pool with its join handles goes out of scope as well
NewReaderFails ==
    /\ new_pc = "reader_wait"
    /\ wait_err("reader")
    /\ member' = drop_pool(drop_pool(member, "reader"), "writer")
    /\ pool_state' = [p \in Pools |-> "dropped"]
    /\ join_handles' = <<>>
    /\ new_pc' = "err"
    /\ new_result' = "RedisConnectionError"
    /\ UNCHANGED otherThanPool
    /\ UNCHANGED <<settingsVars, pool_size, clients, built_from, attempts, waited,
                   available, monitor, err_events, ndisc, seen_down>>

\* new: both sets connected; Ok(Self { reader_pool, writer_pool, join_handles })
NewOk ==
    /\ new_pc = "reader_wait"
    /\ wait_ok("reader")
    /\ join_handles' = extend(join_handles, connect_handles("reader"))
    /\ pool_state' = [p \in Pools |-> "owned"]
    /\ new_pc' = "ok"
    /\ new_result' = "Ok"
    /\ UNCHANGED otherThanPool
    /\ UNCHANGED <<settingsVars, pool_size, clients, built_from, member, attempts, waited,
                   available, monitor, err_events, ndisc, seen_down>>

\* ------------------------------------------------- member connections
\* The constant policy built by ReconnectPolicy::new_constant(
\* reconnect_max_attempts, reconnect_delay): wait delay ms before each retry,
\* give up for good after max_attempts consecutive failures.
\* another attempt is allowed while fewer than max_attempts have failed in a row
may_retry(n) == n < reconnect_max_attempts

\* the wait before a retry is over once reconnect_delay ms have passed
delay_over(ms) == ms >= reconnect_delay

\* the policy's attempt counter: a saturating add (the model's ceiling is
\* one above the largest max_attempts)
incr_attempts(n) == IF n <= MaxAttempts THEN n + 1 ELSE n

\* a member's first connect succeeds
MemberConnects(p, i) ==
    /\ i \in Members(p)
    /\ member[p][i] = "Connecting"
    /\ member' = [member EXCEPT ![p][i] = "Connected"]
    /\ UNCHANGED otherThanPool
    /\ UNCHANGED <<settingsVars, pool_size, clients, built_from, new_pc, new_result, pool_state, attempts, waited,
                   join_handles, available, monitor, err_events, ndisc, seen_down>>

\* a member's first connect fails: its connect task ends with the error
MemberConnectFails(p, i) ==
    /\ i \in Members(p)
    /\ member[p][i] = "Connecting"
    /\ member' = [member EXCEPT ![p][i] = "Failed"]
    /\ UNCHANGED otherThanPool
    /\ UNCHANGED <<settingsVars, pool_size, clients, built_from, new_pc, new_result, pool_state, attempts, waited,
                   join_handles, available, monitor, err_events, ndisc, seen_down>>

\* an error event reaches the monitor's stream only while the monitor listens
emit_error(n) == IF monitor = "wait" /\ n < MaxErrEvents THEN n + 1 ELSE n

\* a connected member loses its connection: a transport error is reported
MemberDisconnects(p, i) ==
    /\ i \in Members(p)
    /\ member[p][i] = "Connected"
    /\ ndisc < MaxDisconnects
    /\ ndisc' = ndisc + 1
    /\ member' = [member EXCEPT ![p][i] = "Disconnected"]
    /\ attempts' = [attempts EXCEPT ![p][i] = 0]
    /\ waited' = [waited EXCEPT ![p][i] = 0]
    /\ err_events' = emit_error(err_events)
    /\ UNCHANGED otherThanPool
    /\ UNCHANGED <<settingsVars, pool_size, clients, built_from, new_pc, new_result, pool_state,
                   join_handles, available, monitor, seen_down>>

\* one ms of a disconnected member's wait before its next retry passes
MemberWaits(p, i) ==
    /\ i \in Members(p)
    /\ member[p][i] = "Disconnected"
    /\ may_retry(attempts[p][i])
    /\ ~delay_over(waited[p][i])
    /\ waited' = [waited EXCEPT ![p][i] = @ + 1]
    /\ UNCHANGED otherThanPool
    /\ UNCHANGED <<settingsVars, pool_size, clients, built_from, new_pc, new_result, pool_state,
                   member, attempts, join_handles, available, monitor, err_events, ndisc,
                   seen_down>>

\* after reconnect_delay ms the member tries again; with no attempt left it
\* gives up for good
MemberRetries(p, i) ==
    /\ i \in Members(p)
    /\ member[p][i] = "Disconnected"
    /\ IF may_retry(attempts[p][i])
       THEN /\ delay_over(waited[p][i])
            /\ member' = [member EXCEPT ![p][i] = "Reconnecting"]
            /\ attempts' = [attempts EXCEPT ![p][i] = incr_attempts(@)]
       ELSE /\ member' = [member EXCEPT ![p][i] = "Terminal"]
            /\ UNCHANGED attempts
    /\ UNCHANGED waited
    /\ UNCHANGED otherThanPool
    /\ UNCHANGED <<settingsVars, pool_size, clients, built_from, new_pc, new_result, pool_state,
                   join_handles, available, monitor, err_events, ndisc, seen_down>>

\* a reconnect attempt succeeds: the attempt counter starts over
MemberReconnects(p, i) ==
    /\ i \in Members(p)
    /\ member[p][i] = "Reconnecting"
    /\ member' = [member EXCEPT ![p][i] = "Connected"]
    /\ attempts' = [attempts EXCEPT ![p][i] = 0]
    /\ UNCHANGED waited
    /\ UNCHANGED otherThanPool
    /\ UNCHANGED <<settingsVars, pool_size, clients, built_from, new_pc, new_result, pool_state,
                   join_handles, available, monitor, err_events, ndisc, seen_down>>

\* a reconnect attempt fails: another transport error is reported
MemberReconnectFails(p, i) ==
    /\ i \in Members(p)
    /\ member[p][i] = "Reconnecting"
    /\ member' = [member EXCEPT ![p][i] = "Disconnected"]
    /\ waited' = [waited EXCEPT ![p][i] = 0]
    /\ err_events' = emit_error(err_events)
    /\ UNCHANGED otherThanPool
    /\ UNCHANGED <<settingsVars, pool_size, clients, built_from, new_pc, new_result, pool_state, attempts,
                   join_handles, available, monitor, ndisc, seen_down>>

\* ------------------------------------------------- error monitor
\* the pools the monitor finds fully disconnected when it handles an event
observed_down == {p \in Pools : PoolDisconnected(p)}

\* faulty variant: the flag follows the observed state, so it comes back up
on_error_flag_follows_state(flag) == observed_down = {}

\* faulty variant: the flag goes down only when both pools are fully disconnected
on_error_flag_needs_both(flag) == IF observed_down = Pools THEN FALSE ELSE flag

\* on_error, per observed error: the flag is stored false when either pool is
\* fully disconnected, and is left alone otherwise
on_error_flag(flag) == IF observed_down # {} THEN FALSE ELSE flag

\* the caller spawns on_error alongside the pool
OnErrorSpawn ==
    /\ new_pc = "ok"
    /\ monitor = "off"
    /\ monitor' = "wait"
    /\ UNCHANGED otherThanPool
    /\ UNCHANGED <<settingsVars, pool_size, clients, built_from, new_pc, new_result, pool_state, member,
                   attempts, waited, join_handles, available, err_events, ndisc, seen_down>>

\* on_error: the next event of the error streams is logged and handled
OnErrorStep ==
    /\ monitor = "wait"
    /\ err_events > 0
    /\ err_events' = err_events - 1
    /\ available' = on_error_flag(available)
    /\ seen_down' = IF observed_down # {} THEN observed_down ELSE seen_down
    /\ UNCHANGED otherThanPool
    /\ UNCHANGED <<settingsVars, pool_size, clients, built_from, new_pc, new_result, pool_state, member,
                   attempts, waited, join_handles, monitor, ndisc>>

NextPool ==
    \/ NewInstantiateWriter
    \/ NewInstantiateReader
    \/ NewWriterFails
    \/ NewReaderFails
    \/ NewOk
    \/ \E p \in Pools, i \in Slots : MemberConnects(p, i)
    \/ \E p \in Pools, i \in Slots : MemberConnectFails(p, i)
    \/ \E p \in Pools, i \in Slots : MemberDisconnects(p, i)
    \/ \E p \in Pools, i \in Slots : MemberWaits(p, i)
    \/ \E p \in Pools, i \in Slots : MemberRetries(p, i)
    \/ \E p \in Pools, i \in Slots : MemberReconnects(p, i)
    \/ \E p \in Pools, i \in Slots : MemberReconnectFails(p, i)
    \/ OnErrorSpawn
    \/ OnErrorStep

\* ------------------------------------------------- publish / subscribe
Calls == 1..MaxSubs
Channels == {"orders", "rides"}
Kinds == {"typed", "str"}

\* RedisValue of a message: String(text), Null, or another shape
Texts == {"7", "x", ""}
Null == [kind |-> "Null", text |-> ""]
Other == [kind |-> "Integer", text |-> ""]
String(t) == [kind |-> "String", text |-> t]
RedisValues == {String(t) : t \in Texts} \cup {Null, Other}

\* serde_json::from_str::<T> with T = i64: a JSON number decodes, anything
\* else (malformed text, the empty input) is an error
from_str(t) ==
    IF t = "7" THEN [ok |-> TRUE, value |-> 7] ELSE [ok |-> FALSE, value |-> 0]

\* reader_pool.next(): round-robin over the reader set's members
next(c) == (c % pool_size["reader"]) + 1

\* the typed relay's match on msg.value: the tuples it forwards (none or one)
typed_output(msg, now) ==
    IF msg.value.kind = "String"
    THEN IF from_str(msg.value.text).ok
         THEN << <<msg.channel, from_str(msg.value.text).value, now>> >>
         ELSE <<>>
    ELSE <<>>

\* faulty variant: the text is decoded first and dropped when that fails
str_output_decodes(msg) ==
    IF msg.value.kind = "String" /\ from_str(msg.value.text).ok
    THEN << <<msg.channel, msg.value.text>> >>
    ELSE <<>>

\* the raw-string relay's match on msg.value: the tuples it forwards
str_output(msg) ==
    IF msg.value.kind = "String"
    THEN << <<msg.channel, msg.value.text>> >>
    ELSE <<>>

relay_output(kind, msg, now) ==
    IF kind = "typed" THEN typed_output(msg, now) ELSE str_output(msg)

\* faulty variant: a failed tx.send ends the relay task
on_send_error_ends == "ended"
\* faulty variant: a message that is not forwarded ends the relay task
on_dropped_message_ends == "ended"

\* where the relay loop goes after a failed tx.send: the error is logged
on_send_error == "recv"
\* where the relay loop goes after a message it does not forward (decode
\* error, null, unexpected value): the error is logged
on_dropped_message == "recv"
\* where the relay loop goes after recv() returned an error: it is logged
on_recv_error == "recv"

\* faulty variant: the entry is queued twice
mpsc_send_twice(q, e) == Append(Append(q, e), e)
\* faulty variant: the entry goes to the front
mpsc_send_front(q, e) == <<e>> \o q

\* tx.send on the unbounded queue: the entry goes to the back
mpsc_send(q, e) == Append(q, e)

\* the variant of RedisError a failed subscribe command is mapped to
subscribe_error == "GetFailed"

\* a broadcast to one receiver: the oldest message is overwritten, and the
\* receiver marked lagged, when BroadcastCap messages are already waiting
broadcast_push(st, msg) ==
    IF Len(st) >= BroadcastCap THEN Append(Tail(st), msg) ELSE Append(st, msg)

RelayIdle ==
    /\ counter = 0
    /\ conn_subs = [c \in Slots |-> {}]
    /\ sub_pc = [k \in Calls |-> "idle"]
    /\ sub_arg = [k \in Calls |-> [channel |-> "", kind |-> "", conn |-> 0]]
    /\ sub_cmds = [k \in Calls |-> 0]
    /\ sub_result = [k \in Calls |-> "none"]
    /\ stream = [k \in Calls |-> <<>>]
    /\ lagged = [k \in Calls |-> FALSE]
    /\ relay_pc = [k \in Calls |-> "off"]
    /\ recvd = [k \in Calls |-> <<>>]
    /\ queue = [k \in Calls |-> <<>>]
    /\ sent = [k \in Calls |-> <<>>]
    /\ send_errs = [k \in Calls |-> 0]
    /\ got = [k \in Calls |-> <<>>]
    /\ handle = [k \in Calls |-> "none"]
    /\ clock = 0
    /\ npub = 0
    /\ closed = FALSE
    /\ closed_seen = [k \in Calls |-> 0]
    /\ arrived = [k \in Calls |-> <<>>]

\* subscribe_channel / subscribe_channel_as_str up to the subscribe().await:
\* the mpsc channel is made, a connection picked, the command issued
SubscribeCall(k, ch, kind) ==
    /\ sub_pc[k] = "idle"
    /\ ~closed
    \* call slots are interchangeable: they are used in order
    /\ \A j \in 1..(k - 1) : sub_pc[j] # "idle"
    /\ sub_arg' = [sub_arg EXCEPT ![k] = [channel |-> ch, kind |-> kind, conn |-> next(counter)]]
    /\ counter' = counter + 1
    /\ sub_cmds' = [sub_cmds EXCEPT ![k] = @ + 1]
    /\ sub_pc' = [sub_pc EXCEPT ![k] = "subscribing"]
    /\ UNCHANGED otherThanRelay
    /\ UNCHANGED <<conn_subs, sub_result, stream, lagged, relay_pc, recvd,
                   queue, sent, send_errs, got, handle, clock, npub, closed, closed_seen, arrived>>

\* the subscribe command succeeds: the connection now receives the channel
SubscribeOk(k) ==
    /\ sub_pc[k] = "subscribing"
    /\ conn_subs' = [conn_subs EXCEPT ![sub_arg[k].conn] = @ \cup {sub_arg[k].channel}]
    /\ sub_pc' = [sub_pc EXCEPT ![k] = "subscribed"]
    /\ UNCHANGED otherThanRelay
    /\ UNCHANGED <<counter, sub_arg, sub_cmds, sub_result, stream, lagged, relay_pc,
                   recvd, queue, sent, send_errs, got, handle, clock, npub, closed, closed_seen, arrived>>

\* the subscribe command fails: map_err and `?` return the error
SubscribeErr(k) ==
    /\ sub_pc[k] = "subscribing"
    /\ sub_pc' = [sub_pc EXCEPT ![k] = "failed"]
    /\ sub_result' = [sub_result EXCEPT ![k] = subscribe_error]
    /\ UNCHANGED otherThanRelay
    /\ UNCHANGED <<counter, conn_subs, sub_arg, sub_cmds, stream, lagged, relay_pc,
                   recvd, queue, sent, send_errs, got, handle, clock, npub, closed, closed_seen, arrived>>

\* message_rx(), tokio::spawn of the relay loop, Ok(rx)
SubscribeSpawn(k) ==
    /\ sub_pc[k] = "subscribed"
    /\ stream' = [stream EXCEPT ![k] = <<>>]
    /\ relay_pc' = [relay_pc EXCEPT ![k] = "recv"]
    /\ handle' = [handle EXCEPT ![k] = "held"]
    /\ sub_result' = [sub_result EXCEPT ![k] = "Ok"]
    /\ sub_pc' = [sub_pc EXCEPT ![k] = "running"]
    /\ UNCHANGED otherThanRelay
    /\ UNCHANGED <<counter, conn_subs, sub_arg, sub_cmds, lagged, recvd,
                   queue, sent, send_errs, got, clock, npub, closed, closed_seen, arrived>>

\* the receivers a message on channel ch reaches: every message stream taken
\* from a connection that is subscribed to ch
Receivers(ch) ==
    {k \in Calls : /\ sub_pc[k] = "running"
                   /\ ch \in conn_subs[sub_arg[k].conn]
                   /\ member["reader"][sub_arg[k].conn] = "Connected"}

\* the calls whose subscribe command has succeeded on a connection that a
\* message on channel ch is sent to
Subscribed(ch) ==
    {k \in Calls : /\ sub_pc[k] \in {"subscribed", "running"}
                   /\ ch \in conn_subs[sub_arg[k].conn]
                   /\ member["reader"][sub_arg[k].conn] = "Connected"}

\* a client publishes value v on channel ch: the message is broadcast to the
\* message streams taken from the connections subscribed to ch
Deliver(ch, v) ==
    /\ npub < MaxPublish
    /\ ~closed
    \* a message on a channel no connection is subscribed to reaches nobody
    /\ \E c \in Slots : ch \in conn_subs[c]
    /\ npub' = npub + 1
    /\ clock' = clock + 1
    /\ LET msg == [channel |-> ch, value |-> v, at |-> clock + 1] IN
       /\ stream' = [k \in Calls |->
                        IF k \in Receivers(ch) THEN broadcast_push(stream[k], msg)
                        ELSE stream[k]]
       /\ lagged' = [k \in Calls |->
                        IF k \in Receivers(ch) /\ Len(stream[k]) >= BroadcastCap THEN TRUE
                        ELSE lagged[k]]
    /\ UNCHANGED otherThanRelay
    /\ UNCHANGED <<counter, conn_subs, sub_pc, sub_arg, sub_cmds, sub_result, relay_pc,
                   recvd, queue, sent, send_errs, got, handle, closed, closed_seen>>

\* a publish, the history of arrivals not kept
Publish(ch, v) == Deliver(ch, v) /\ UNCHANGED arrived

\* a publish, recorded for every call whose subscribe has succeeded on a
\* connection the message is sent to
PublishRecorded(ch, v) ==
    /\ Deliver(ch, v)
    /\ arrived' = [k \in Calls |->
                      IF k \in Subscribed(ch)
                      THEN Append(arrived[k], [channel |-> ch, value |-> v, at |-> clock + 1])
                      ELSE arrived[k]]

\* relay: message_stream.recv() returns Err(Lagged): logged, loop continues
RelayRecvErr(k) ==
    /\ relay_pc[k] = "recv"
    /\ lagged[k]
    /\ lagged' = [lagged EXCEPT ![k] = FALSE]
    /\ relay_pc' = [relay_pc EXCEPT ![k] = on_recv_error]
    /\ UNCHANGED otherThanRelay
    /\ UNCHANGED <<counter, conn_subs, sub_pc, sub_arg, sub_cmds, sub_result, stream,
                   recvd, queue, sent, send_errs, got, handle, clock, npub, closed, closed_seen, arrived>>

\* relay, one iteration of the loop: message_stream.recv() returns Ok(msg),
\* the match on msg.value, and tx.send for a message that is forwarded
RelayRecv(k) ==
    /\ relay_pc[k] = "recv"
    /\ ~lagged[k]
    /\ stream[k] # <<>>
    /\ stream' = [stream EXCEPT ![k] = Tail(@)]
    /\ recvd' = [recvd EXCEPT ![k] = Append(@, Head(stream[k]))]
    /\ LET msg == Head(stream[k])
           out == relay_output(sub_arg[k].kind, msg, clock)
       IN  IF out = <<>>
           THEN /\ relay_pc' = [relay_pc EXCEPT ![k] = on_dropped_message]
                /\ UNCHANGED <<queue, sent, send_errs>>
           ELSE IF handle[k] = "held"
           THEN /\ queue' = [queue EXCEPT ![k] = mpsc_send(@, [tuple |-> out[1], msg |-> msg])]
                /\ sent' = [sent EXCEPT ![k] = Append(@, [tuple |-> out[1], msg |-> msg])]
                /\ UNCHANGED <<relay_pc, send_errs>>
           ELSE /\ send_errs' = [send_errs EXCEPT ![k] = @ + 1]
                /\ relay_pc' = [relay_pc EXCEPT ![k] = on_send_error]
                /\ UNCHANGED <<queue, sent>>
    /\ UNCHANGED otherThanRelay
    /\ UNCHANGED <<counter, conn_subs, sub_pc, sub_arg, sub_cmds, sub_result, lagged,
                   got, handle, clock, npub, closed, closed_seen, arrived>>

\* the consumer takes the next tuple from its receive handle
Consume(k) ==
    /\ handle[k] = "held"
    /\ queue[k] # <<>>
    /\ got' = [got EXCEPT ![k] = Append(@, Head(queue[k]))]
    /\ queue' = [queue EXCEPT ![k] = Tail(@)]
    /\ UNCHANGED otherThanRelay
    /\ UNCHANGED <<counter, conn_subs, sub_pc, sub_arg, sub_cmds, sub_result, stream,
                   lagged, relay_pc, recvd, sent, send_errs, handle, clock, npub, closed, closed_seen, arrived>>

\* the consumer drops its receive handle: what is still queued is discarded
DropHandle(k) ==
    /\ handle[k] = "held"
    /\ handle' = [handle EXCEPT ![k] = "dropped"]
    /\ queue' = [queue EXCEPT ![k] = <<>>]
    /\ UNCHANGED otherThanRelay
    /\ UNCHANGED <<counter, conn_subs, sub_pc, sub_arg, sub_cmds, sub_result, stream,
                   lagged, relay_pc, recvd, sent, send_errs, got, clock, npub, closed, closed_seen, arrived>>

\* the pool is dropped and its reader connections end: the sender side of
\* every message stream is gone.  No call borrows the pool at that moment.
StreamsClose ==
    /\ ~closed
    /\ \E k \in Calls : sub_pc[k] = "running"
    /\ \A k \in Calls : sub_pc[k] \notin {"subscribing", "subscribed"}
    /\ closed' = TRUE
    /\ UNCHANGED otherThanRelay
    /\ UNCHANGED <<counter, conn_subs, sub_pc, sub_arg, sub_cmds, sub_result, stream,
                   lagged, relay_pc, recvd, queue, sent, send_errs, got, handle, clock,
                   npub, closed_seen, arrived>>

\* relay: the stream is closed and drained, message_stream.recv() returns
\* Err(Closed) at once: the same Err arm logs it and the loop goes round again
RelayRecvClosed(k) ==
    /\ relay_pc[k] = "recv"
    /\ closed
    /\ ~lagged[k]
    /\ stream[k] = <<>>
    /\ closed_seen[k] < MaxClosedErrs
    /\ closed_seen' = [closed_seen EXCEPT ![k] = @ + 1]
    /\ relay_pc' = [relay_pc EXCEPT ![k] = on_recv_error]
    /\ UNCHANGED otherThanRelay
    /\ UNCHANGED <<counter, conn_subs, sub_pc, sub_arg, sub_cmds, sub_result, stream,
                   lagged, recvd, queue, sent, send_errs, got, handle, clock, npub, closed, arrived>>

NextRelay ==
    \/ \E k \in Calls, ch \in Channels, kind \in Kinds : SubscribeCall(k, ch, kind)
    \/ \E k \in Calls : SubscribeOk(k)
    \/ \E k \in Calls : SubscribeErr(k)
    \/ \E k \in Calls : SubscribeSpawn(k)
    \/ \E ch \in Channels, v \in RedisValues : Publish(ch, v)
    \/ \E k \in Calls : RelayRecvErr(k)
    \/ \E k \in Calls : RelayRecv(k)
    \/ \E k \in Calls : Consume(k)
    \/ \E k \in Calls : DropHandle(k)
    \/ StreamsClose
    \/ \E k \in Calls : RelayRecvClosed(k)

\* one subscribe call, its relay and the publisher, arrivals recorded
NextWindow ==
    \/ \E ch \in Channels, kind \in Kinds : SubscribeCall(1, ch, kind)
    \/ SubscribeOk(1)
    \/ SubscribeSpawn(1)
    \/ \E ch \in Channels, v \in RedisValues : PublishRecorded(ch, v)
    \/ RelayRecvErr(1)
    \/ RelayRecv(1)

\* ------------------------------------------------- close_connections
\* faulty variant: the reader set is quit first
quit_order_reader_first == <<"reader", "writer">>
\* the order of the two quit().await statements
quit_order == <<"writer", "reader">>

MemberStates == LiveStates \cup {"Absent", "Failed", "Terminal", "Quit"}

\* quit on one member, as far as the call shows: a connected member is told
\* to close; what the driver does with one that is connecting, disconnected
\* or reconnecting is not decided here, it is told to close or goes on as it
\* is; a task that has ended stays ended
quit_member(st) ==
    IF st = "Connected" THEN {"Closing"}
    ELSE IF st \in LiveStates THEN {"Closing", st}
    ELSE {st}

\* pool.quit().await resolving with r: quit on every member of the set; a
\* quit that failed may have reached the members or not
quit(m, p, r) ==
    {[m EXCEPT ![p] = f] :
        f \in {g \in [Slots -> MemberStates] : \A i \in Slots : g[i] \in quit_member(m[p][i])}}
      \cup (IF r = "Err" THEN {m} ELSE {})

\* faulty variant: a failed quit makes close_connections return
on_quit_error_returns == "return"
\* `let _ = pool.quit().await`: the result is discarded
on_quit_error == "continue"

\* the Ok(Err(_)) and Err(_) arms of `match handle.await`: logged
on_join_error == "continue"

\* faulty variant: the handles stay in the vector
after_drain_keeps(hs) == hs
\* what join_handles.drain(..) leaves in the vector
after_drain(hs) == <<>>

\* the connect task behind a handle has ended
TaskEnded(h) == member[h[1]][h[2]] \in {"Quit", "Terminal", "Failed"}

\* what handle.await yields for an ended task: Ok(Ok(())) after a quit,
\* Ok(Err(error)) for a task that gave up, Err(JoinError) for one that panicked
join_results(st) ==
    IF st = "Quit" THEN {"Ok", "JoinError"} ELSE {"ConnectionError", "JoinError"}

Event(e, p, h, r) == [ev |-> e, set |-> p, handle |-> h, res |-> r]

\* the events of the call in progress, with es appended
logged(es) == [close_log EXCEPT ![Len(close_log)] = @ \o es]

\* how many times handle h has been awaited, over all calls
AwaitedCount(h) ==
    LET IsAwait(e) == e.ev = "await" /\ e.handle = h
        Sum[n \in 0..Len(close_log)] ==
            IF n = 0 THEN 0 ELSE Sum[n - 1] + Len(SelectSeq(close_log[n], IsAwait))
    IN  Sum[Len(close_log)]

CloseIdle ==
    /\ close_pc = "idle"
    /\ close_calls = 0
    /\ close_log = <<>>
    /\ close_snap = <<>>
    /\ draining = <<>>

\* close_connections(&mut self) is called: the first quit is issued
CloseStart ==
    /\ new_pc = "ok"
    /\ close_pc \in {"idle", "done"}
    /\ close_calls < MaxCloses
    /\ close_pc' = "quit1"
    /\ close_log' = Append(close_log, <<Event("call", "", join_handles, ""),
                                        Event("quit_start", quit_order[1], <<>>, "")>>)
    /\ UNCHANGED <<poolVars, relayVars, uriVars, toolVars, close_calls, close_snap, draining>>

\* a quit().await completes with result r, which is discarded; after the
\* first the second quit is issued, after the second the drain begins
QuitDone(r) ==
    /\ close_pc \in {"quit1", "quit2"}
    /\ LET n == IF close_pc = "quit1" THEN 1 ELSE 2
           p == quit_order[n]
       IN  /\ member' \in quit(member, p, r)
           /\ IF r = "Err" /\ on_quit_error = "return"
              THEN /\ close_pc' = "returning"
                   /\ close_log' = logged(<<Event("quit_end", p, <<>>, r)>>)
                   /\ UNCHANGED <<join_handles, draining>>
              ELSE IF n = 1
              THEN /\ close_pc' = "quit2"
                   /\ close_log' = logged(<<Event("quit_end", p, <<>>, r),
                                            Event("quit_start", quit_order[2], <<>>, "")>>)
                   /\ UNCHANGED <<join_handles, draining>>
              ELSE /\ close_pc' = "drain"
                   /\ close_log' = logged(<<Event("quit_end", p, <<>>, r)>>)
                   /\ draining' = join_handles
                   /\ join_handles' = after_drain(join_handles)
    /\ UNCHANGED <<relayVars, uriVars, toolVars>>
    /\ UNCHANGED <<settingsVars, pool_size, clients, built_from, new_pc, new_result,
                   pool_state, attempts, waited, available, monitor, err_events, ndisc, seen_down,
                   close_calls, close_snap>>

\* a member that was told to close: its connect task ends
MemberTaskEnds(p, i) ==
    /\ i \in Members(p)
    /\ member[p][i] = "Closing"
    /\ member' = [member EXCEPT ![p][i] = "Quit"]
    /\ UNCHANGED otherThanPool
    /\ UNCHANGED <<settingsVars, pool_size, clients, built_from, new_pc, new_result,
                   pool_state, attempts, waited, join_handles, available, monitor, err_events,
                   ndisc, seen_down>>

\* the for loop: the next handle's task has ended and handle.await yields r;
\* awaiting a JoinHandle that was already awaited to completion panics
AwaitHandle(r) ==
    /\ close_pc = "drain"
    /\ draining # <<>>
    /\ LET h == Head(draining) IN
       /\ TaskEnded(h)
       /\ IF AwaitedCount(h) > 0
          THEN /\ close_pc' = "panicked"
               /\ r = "JoinError"
               /\ UNCHANGED <<close_log, draining>>
          ELSE /\ r \in join_results(member[h[1]][h[2]])
               /\ close_log' = logged(<<Event("await", h[1], h, r)>>)
               /\ draining' = Tail(draining)
               /\ close_pc' = IF r # "Ok" /\ on_join_error = "return"
                               THEN "returning" ELSE "drain"
    /\ UNCHANGED <<poolVars, relayVars, uriVars, toolVars, close_calls, close_snap>>

\* every handle has been awaited: close_connections returns ()
CloseReturn ==
    /\ \/ close_pc = "drain" /\ draining = <<>>
       \/ close_pc = "returning"
    /\ close_pc' = "done"
    /\ close_calls' = close_calls + 1
    /\ close_snap' = Append(close_snap, [member |-> member, join_handles |-> join_handles])
    /\ draining' = <<>>
    /\ UNCHANGED <<poolVars, relayVars, uriVars, toolVars, close_log>>

NextClose ==
    \/ CloseStart
    \/ \E r \in {"Ok", "Err"} : QuitDone(r)
    \/ \E p \in Pools, i \in Slots : MemberTaskEnds(p, i)
    \/ \E r \in {"Ok", "ConnectionError", "JoinError"} : AwaitHandle(r)
    \/ CloseReturn
    \/ \E p \in Pools, i \in Slots : MemberDisconnects(p, i)
    \/ \E p \in Pools, i \in Slots : MemberWaits(p, i)
    \/ \E p \in Pools, i \in Slots : MemberRetries(p, i)
    \/ \E p \in Pools, i \in Slots : MemberReconnects(p, i)
    \/ \E p \in Pools, i \in Slots : MemberReconnectFails(p, i)

\* a pool from new to close_connections
NextLife ==
    \/ NewInstantiateWriter
    \/ NewInstantiateReader
    \/ NewWriterFails
    \/ NewReaderFails
    \/ NewOk
    \/ \E p \in Pools, i \in Slots : MemberConnects(p, i)
    \/ \E p \in Pools, i \in Slots : MemberConnectFails(p, i)
    \/ \E p \in Pools, i \in Slots : MemberDisconnects(p, i)
    \/ \E p \in Pools, i \in Slots : MemberWaits(p, i)
    \/ \E p \in Pools, i \in Slots : MemberRetries(p, i)
    \/ \E p \in Pools, i \in Slots : MemberReconnects(p, i)
    \/ \E p \in Pools, i \in Slots : MemberReconnectFails(p, i)
    \/ CloseStart
    \/ \E r \in {"Ok", "Err"} : QuitDone(r)
    \/ \E p \in Pools, i \in Slots : MemberTaskEnds(p, i)
    \/ \E r \in {"Ok", "ConnectionError", "JoinError"} : AwaitHandle(r)
    \/ CloseReturn

\* ------------------------------------------------- connection URL
Hosts == {"localhost", ""}
Ports == {6379, 30001}
Partitions == {0, 3}
Nodes == {"a:1", "b:2", "c:3"}
Attempts == {0, 5}
Delays == {250, 1000}

\* the sequences over S of length at most n
SeqsUpTo(S, n) == UNION {[1..m -> S] : m \in 0..n}

\* .iter().flat_map(|url| vec!["&", url]): "&" before every url
RECURSIVE flat_map_amp(_)
flat_map_amp(urls) ==
    IF urls = <<>> THEN <<>> ELSE <<"&", Head(urls)>> \o flat_map_amp(Tail(urls))

\* .skip(1): everything but the first piece
skip_1(pieces) == IF pieces = <<>> THEN <<>> ELSE Tail(pieces)

\* .collect::<String>(): the pieces run together
RECURSIVE collect(_)
collect(pieces) ==
    IF pieces = <<>> THEN "" ELSE Head(pieces) \o collect(Tail(pieces))

\* faulty variant: the standalone URL is built without the partition
instantiate_url_without_partition(conf) ==
    IF conf.cluster_enabled
    THEN "redis-cluster://" \o conf.host \o ":" \o ToString(conf.port) \o "?"
            \o collect(skip_1(flat_map_amp(conf.cluster_urls)))
    ELSE "redis://" \o conf.host \o ":" \o ToString(conf.port) \o "/"

\* instantiate: redis_connection_url
instantiate_url(conf) ==
    IF conf.cluster_enabled
    THEN "redis-cluster://" \o conf.host \o ":" \o ToString(conf.port) \o "?"
            \o collect(skip_1(flat_map_amp(conf.cluster_urls)))
    ELSE "redis://" \o conf.host \o ":" \o ToString(conf.port) \o "/"
            \o ToString(conf.partition)

\* RedisClient::get_config: redis_connection_url
get_config_url(conf) ==
    IF conf.cluster_enabled
    THEN "redis-cluster://" \o conf.host \o ":" \o ToString(conf.port) \o "?"
            \o collect(skip_1(flat_map_amp(conf.cluster_urls)))
    ELSE "redis://" \o conf.host \o ":" \o ToString(conf.port) \o "/"
            \o ToString(conf.partition)

urls_of(conf) == [instantiate |-> instantiate_url(conf), get_config |-> get_config_url(conf)]

NoUrls == [instantiate |-> "", get_config |-> ""]

\* RedisConfig::from_url: the URL parser rejects a URL without a host
\* ("redis://:6379/0"); every other URL the two functions build parses,
\* a cluster URL with an empty query included (host:port is then the one node)
from_url_ok(conf) == conf.host # ""

\* the variant of RedisError a failed from_url is mapped to
from_url_error == "RedisConnectionError"

\* what from_url leaves in the fields the two functions go on to set
parsed_config == [version |-> "RESP2", tracing |-> FALSE, blocking |-> "Block"]

\* ReconnectPolicy::new_constant(max_attempts, delay)
new_constant(max_attempts, delay) ==
    [kind |-> "constant", max_attempts |-> max_attempts, delay |-> delay]

\* faulty variant: blocking commands are left as from_url set them
instantiate_config_leaves_blocking(conf) ==
    [version |-> IF ~conf.use_legacy_version THEN "RESP3" ELSE parsed_config.version,
     tracing |-> TRUE,
     blocking |-> parsed_config.blocking,
     reconnect_policy |-> new_constant(conf.reconnect_max_attempts, conf.reconnect_delay)]

\* instantiate: config and reconnect_policy after a successful from_url
instantiate_config(conf) ==
    [version |-> IF ~conf.use_legacy_version THEN "RESP3" ELSE parsed_config.version,
     tracing |-> TRUE,
     blocking |-> "Error",
     reconnect_policy |-> new_constant(conf.reconnect_max_attempts, conf.reconnect_delay)]

\* RedisClient::get_config: config and reconnect_policy after a successful from_url
get_config_config(conf) ==
    [version |-> IF ~conf.use_legacy_version THEN "RESP3" ELSE parsed_config.version,
     tracing |-> TRUE,
     blocking |-> "Error",
     reconnect_policy |-> new_constant(conf.reconnect_max_attempts, conf.reconnect_delay)]

configs_of(conf) ==
    [instantiate |-> instantiate_config(conf), get_config |-> get_config_config(conf)]

NoConfigs == [instantiate |-> parsed_config, get_config |-> parsed_config]

UriIdle ==
    /\ uri_conf = [host |-> "localhost", port |-> 6379, partition |-> 0,
                   cluster_enabled |-> FALSE, cluster_urls |-> <<>>,
                   use_legacy_version |-> FALSE, reconnect_max_attempts |-> 5,
                   reconnect_delay |-> 1000]
    /\ uri_pc = "idle"
    /\ uri_out = NoUrls
    /\ uri_other = NoUrls
    /\ uri_parsed = "none"
    /\ uri_config = NoConfigs

UriInputs ==
    /\ uri_conf \in [host : Hosts, port : Ports, partition : Partitions,
                      cluster_enabled : BOOLEAN, cluster_urls : SeqsUpTo(Nodes, MaxNodes),
                      use_legacy_version : BOOLEAN, reconnect_max_attempts : Attempts,
                      reconnect_delay : Delays]
    /\ uri_pc = "idle"
    /\ uri_out = NoUrls
    /\ uri_other = NoUrls
    /\ uri_parsed = "none"
    /\ uri_config = NoConfigs

\* instantiate(&conf) and get_config(&conf) build their URL
BuildUrl ==
    /\ uri_pc = "idle"
    /\ uri_out' = urls_of(uri_conf)
    /\ uri_pc' = "built"
    /\ UNCHANGED <<poolVars, relayVars, closeVars, toolVars, uri_conf, uri_other, uri_parsed, uri_config>>

\* the same two functions are given settings with another list of cluster urls
BuildUrlOther(urls) ==
    /\ uri_pc = "built"
    /\ uri_other' = urls_of([uri_conf EXCEPT !.cluster_urls = urls])
    /\ uri_pc' = "rebuilt"
    /\ UNCHANGED <<poolVars, relayVars, closeVars, toolVars, uri_conf, uri_out, uri_parsed, uri_config>>

\* RedisConfig::from_url(&redis_connection_url): on an error map_err and `?`
\* return it; otherwise version, tracing and blocking are set, the reconnect
\* policy is made, and (in instantiate) the pool is created and connected
ParseUrl ==
    /\ uri_pc # "idle"
    /\ uri_parsed = "none"
    /\ IF from_url_ok(uri_conf)
       THEN /\ uri_parsed' = "Ok"
            /\ uri_config' = configs_of(uri_conf)
       ELSE /\ uri_parsed' = from_url_error
            /\ UNCHANGED uri_config
    /\ UNCHANGED <<poolVars, relayVars, closeVars, toolVars, uri_conf, uri_pc, uri_out, uri_other>>

NextUri ==
    \/ BuildUrl
    \/ \E urls \in SeqsUpTo(Nodes, MaxNodes) : BuildUrlOther(urls)
    \/ ParseUrl

\* ------------------------------------------------- request-metrics middleware
\* how many requests the middleware is called with
MaxRequests == 2

Methods == {"GET", "POST"}
\* a text the UUID pattern matches
Uuid == "123e4567-e89b-12d3-a456-426614174000"
\* the request paths, as request.path() gives them
Paths == {"/ride/42", "/ride/" \o Uuid, "/ride/ride", "/a%20b/42", "/a%20b/x" \o Uuid}
StatusCodes == {200, 404}

\* an actix Error: its Display text and the status of its error_response()
Errors == {[text |-> "Unauthorized", status |-> 401],
           [text |-> "Internal Server Error", status |-> 500]}
None == [text |-> "None", status |-> 0]

\* str::replace: every non-overlapping occurrence of from in s, from the
\* left, becomes to; an empty from matches before every character and at the end
RECURSIVE replace(_, _, _)
replace(s, from, to) ==
    IF from = ""
    THEN IF s = "" THEN to ELSE to \o SubSeq(s, 1, 1) \o replace(SubSeq(s, 2, Len(s)), from, to)
    ELSE IF Len(s) < Len(from) THEN s
    ELSE IF SubSeq(s, 1, Len(from)) = from
    THEN to \o replace(SubSeq(s, Len(from) + 1, Len(s)), from, to)
    ELSE SubSeq(s, 1, 1) \o replace(SubSeq(s, 2, Len(s)), from, to)

\* urlencoding::decode on the path; %20 is the only escape in the paths used
decode(path) == replace(path, "%20", " ")

\* the for_each over match_info: path = path.replace(path_val, ":path_name")
\* for every (name, value) in turn, on the whole path
RECURSIVE replace_matched(_, _)
replace_matched(path, info) ==
    IF info = <<>> THEN path
    ELSE replace_matched(replace(path, info[1][2], ":" \o info[1][1]), Tail(info))

\* re.replace_all(&path, ":id"): every non-overlapping match of the pattern
\* [0-9a-fA-F]{8}-[0-9a-fA-F]{4}-[0-9a-fA-F]{4}-[0-9a-fA-F]{4}-[0-9a-fA-F]{12},
\* from the left, wherever in the path it is
RECURSIVE replace_uuid(_)
replace_uuid(path) ==
    LET hex == {"0", "1", "2", "3", "4", "5", "6", "7", "8", "9",
                "a", "b", "c", "d", "e", "f", "A", "B", "C", "D", "E", "F"}
        is_match == /\ Len(path) >= 36
                    /\ \A n \in 1..36 :
                          IF n \in {9, 14, 19, 24}
                          THEN SubSeq(path, n, n) = "-"
                          ELSE SubSeq(path, n, n) \in hex
    IN  IF path = "" THEN ""
        ELSE IF is_match THEN ":id" \o replace_uuid(SubSeq(path, 37, Len(path)))
        ELSE SubSeq(path, 1, 1) \o replace_uuid(SubSeq(path, 2, Len(path)))

\* get_path(request)
get_path(request) == replace_uuid(replace_matched(decode(request.path), request.match_info))

\* get_method(request)
get_method(request) == request.method

\* the router of the inner service: the match_info of the request it hands back
routed(request) ==
    IF Len(request.path) > 6 /\ SubSeq(request.path, 1, 6) = "/ride/"
    THEN [request EXCEPT !.match_info =
             << <<"rideId", SubSeq(request.path, 7, Len(request.path))>> >>]
    ELSE request

\* faulty variant: nothing is observed when the inner service failed
calculate_metrics_ok_only(err_resp, resp_status, req_method, req_path) ==
    IF err_resp # None
    THEN <<>>
    ELSE <<[method |-> req_method, path |-> req_path, status |-> resp_status,
            code |-> "SUCCESS"]>>

\* calculate_metrics: the incoming_api! observations it makes
calculate_metrics(err_resp, resp_status, req_method, req_path) ==
    IF err_resp # None
    THEN <<[method |-> req_method, path |-> req_path, status |-> resp_status,
            code |-> err_resp.text]>>
    ELSE <<[method |-> req_method, path |-> req_path, status |-> resp_status,
            code |-> "SUCCESS"]>>

\* what the inner service's future can resolve to for a request: a response
\* (whose error() may be set) or an error
InnerResults(request) ==
    [kind : {"Ok"}, status : StatusCodes, error : Errors \cup {None}, request : {routed(request)}]
      \cup [kind : {"Err"}, status : {0}, error : Errors, request : {request}]

NoRequest == [method |-> "", path |-> "", match_info |-> <<>>]

MwIdle ==
    /\ mw_n = 0
    /\ mw_pc = "idle"
    /\ mw_req = NoRequest
    /\ mw_saved = [method |-> "", path |-> ""]
    /\ mw_inner = "none"
    /\ mw_metrics = <<>>
    /\ mw_done = <<>>

\* ------------------------------------------------- call_api
\* how many times call_api / call_api_unwrapping_error is invoked
MaxApiCalls == 2
\* how many headers an invocation is given
MaxHeaders == 2

Functions == {"call_api", "call_api_unwrapping_error"}
Protocols == {"Http1", "Http2"}
HeaderNames == {"Authorization", "bad name"}
HeaderValues == {"Bearer T", "bad\nvalue"}
\* body: None, a value that serializes, a value whose Serialize fails
Bodies == {"None", "Some", "SomeUnserializable"}
Statuses == {200, 204, 301, 404, 500}

\* HeaderName::from_str, HeaderValue::from_str
header_name_ok(name) == name # "bad name"
header_value_ok(value) == value # "bad\nvalue"

\* serde_json::to_string(body)
to_string_ok(body) == body # "SomeUnserializable"

\* the Display texts of the errors the libraries hand over: the client
\* builder's, serde_json's for the body, the client's for a request that
\* could not be sent and for a response body that is not a T
BuilderError == "builder error"
SerializeError == "cannot serialize"
SendError == "error sending request"
DecodeError == "error decoding response body"

Err(kind, text) == [kind |-> "Err", error |-> kind, text |-> text]
Ok(value) == [kind |-> "Ok", error |-> "", text |-> value]
\* not a result: the step went through, nothing has been returned
Through == [kind |-> "none", error |-> "", text |-> ""]
NoResponse == [kind |-> "none", status |-> 0, json_ok |-> FALSE]

CallAPIErrors == {"InternalError", "InvalidRequest", "ExternalAPICallError",
                  "SerializationError", "DeserializationError"}

\* the header loop: the first header whose name or value is rejected ends
\* the call, the name being looked at first
RECURSIVE check_headers(_)
check_headers(headers) ==
    IF headers = <<>> THEN Through
    ELSE IF ~header_name_ok(Head(headers)[1])
         THEN Err("InvalidRequest", "Invalid Header Name : " \o Head(headers)[1])
    ELSE IF ~header_value_ok(Head(headers)[2])
         THEN Err("InvalidRequest", "Invalid Header Value : " \o Head(headers)[2])
    ELSE check_headers(Tail(headers))

\* both functions up to request.send(): the error a `?` returned, if any
before_send(in) ==
    IF in.protocol = "Http2" /\ ~in.h2_builds
    THEN Err("InternalError", "Http2 client builder error : " \o BuilderError)
    ELSE IF check_headers(in.headers) # Through THEN check_headers(in.headers)
    ELSE IF in.body # "None" /\ ~to_string_ok(in.body)
         THEN Err("SerializationError", SerializeError)
    ELSE Through

\* StatusCode::canonical_reason
canonical_reason(status) ==
    CASE status = 200 -> "OK"
      [] status = 204 -> "No Content"
      [] status = 301 -> "Moved Permanently"
      [] status = 404 -> "Not Found"
      [] status = 500 -> "Internal Server Error"
      [] OTHER -> "<unknown status code>"

\* Display of StatusCode: the number and the reason
status_to_string(status) == ToString(status) \o " " \o canonical_reason(status)

\* the status label of the call_external_api! observation
observed_status(resp) == IF resp.kind = "Ok" THEN ToString(resp.status) ELSE "UNKNOWN"

\* faulty variant: a redirect counts as success
is_success_or_redirect(status) == status >= 200 /\ status < 400
\* resp.status().is_success()
is_success(status) == status >= 200 /\ status < 300

\* what send().await can resolve to: a response with a status, whose body is
\* or is not JSON of type T, or a transport error
Responses ==
    [kind : {"Ok"}, status : Statuses, json_ok : BOOLEAN]
      \cup {[kind |-> "Err", status |-> 0, json_ok |-> FALSE]}

\* the await the match on resp comes to before it returns: resp.json::<T>()
\* for a success status unless T is (), resp.text() for another status in
\* call_api, none otherwise
body_await(in, resp) ==
    IF resp.kind # "Ok" THEN "none"
    ELSE IF is_success(resp.status) THEN (IF in.unit THEN "none" ELSE "json")
    ELSE IF in.fn = "call_api" THEN "text" ELSE "none"

\* the match on resp: what the function returns
after_send(in, resp) ==
    IF resp.kind = "Ok"
    THEN IF is_success(resp.status)
         THEN IF in.unit THEN Ok("()")
              ELSE IF resp.json_ok THEN Ok("T") ELSE Err("DeserializationError", DecodeError)
         ELSE IF in.fn = "call_api"
              THEN Err("ExternalAPICallError", status_to_string(resp.status))
              ELSE Err("error_handler", status_to_string(resp.status))
    ELSE Err("ExternalAPICallError", SendError)

ApiInputs ==
    [fn : Functions, protocol : Protocols, h2_builds : BOOLEAN,
     headers : SeqsUpTo(HeaderNames \X HeaderValues, MaxHeaders),
     body : Bodies, unit : BOOLEAN]

ApiIdle ==
    /\ api_n = 0
    /\ api_pc = "idle"
    /\ api_in = [fn |-> "call_api", protocol |-> "Http1", h2_builds |-> TRUE,
                 headers |-> <<>>, body |-> "None", unit |-> TRUE]
    /\ api_sends = 0
    /\ api_resp = NoResponse
    /\ api_observed = <<>>
    /\ api_result = Through

\* the function is invoked and runs to its send().await, or returns the
\* error of a step before it
ApiCall(in) ==
    /\ api_pc \in {"idle", "done", "dropped"}
    /\ api_n < MaxApiCalls
    /\ api_n' = api_n + 1
    /\ api_in' = in
    /\ api_resp' = NoResponse
    /\ api_observed' = <<>>
    /\ IF before_send(in) = Through
       THEN /\ api_sends' = 1
            /\ api_pc' = "sent"
            /\ api_result' = Through
       ELSE /\ api_sends' = 0
            /\ api_pc' = "done"
            /\ api_result' = before_send(in)
    /\ UNCHANGED <<redisVars, mwVars, getterVars>>

\* send().await resolves: the call_external_api! observation is made and the
\* match on resp runs to its return, or to the await on the response body
ApiResponse(resp) ==
    /\ api_pc = "sent"
    /\ api_resp' = resp
    /\ api_observed' = Append(api_observed, observed_status(resp))
    /\ IF body_await(api_in, resp) = "none"
       THEN /\ api_pc' = "done"
            /\ api_result' = after_send(api_in, resp)
       ELSE /\ api_pc' = "body"
            /\ UNCHANGED api_result
    /\ UNCHANGED <<redisVars, mwVars, getterVars, api_n, api_in, api_sends>>

\* resp.json::<T>().await or resp.text().await resolves and the function
\* returns
ApiBodyRead ==
    /\ api_pc = "body"
    /\ api_result' = after_send(api_in, api_resp)
    /\ api_pc' = "done"
    /\ UNCHANGED <<redisVars, mwVars, getterVars, api_n, api_in, api_sends, api_resp,
                   api_observed>>

\* the caller drops the future at one of its awaits: nothing is returned
ApiDrop ==
    /\ api_pc \in {"sent", "body"}
    /\ api_pc' = "dropped"
    /\ UNCHANGED <<redisVars, mwVars, getterVars, api_n, api_in, api_sends, api_resp,
                   api_observed, api_result>>

NextCallApi ==
    \/ \E in \in ApiInputs : ApiCall(in)
    \/ \E resp \in Responses : ApiResponse(resp)
    \/ ApiBodyRead
    \/ ApiDrop

\* ------------------------------------------------- impl_getter
\* how many fields the struct under the attribute has
MaxFields == 2
\* how many times inner() is called on the value
MaxInnerCalls == 2

FieldTypes == {"String", "u32"}
FieldKinds == {"Named", "Unnamed"}

\* a value: its content, and the heap buffer it owns (0 for a value that
\* owns none: a u32, or a String of capacity 0)
ValuesOf(type) ==
    IF type = "String" THEN {"Example", "x", ""} ELSE {"0", "7", "4294967295"}

Value(content, buf) == [content |-> content, buf |-> buf]

\* PartialEq of the field types: the contents are compared
eq(a, b) == a.content = b.content

\* fields.named.first() / fields.unnamed.first(): the type of the first
\* field, "none" when there is no field
first_ty(item) ==
    IF item.fields = "Unit" \/ item.types = <<>> THEN "none" ELSE item.types[1]

\* the quote! block: a tuple struct of the same name around the inner type
gen(item) == [name |-> item.name, inner_type |-> first_ty(item)]

\* faulty variant: the copy is made empty
to_owned_empty(v, fresh) == Value("", 0)
\* self.0.to_owned(): a copy of the value; the copy of a String has the
\* capacity of its length, so it owns a buffer of its own unless it is empty
to_owned(v, fresh) == Value(v.content, IF v.buf = 0 \/ v.content = "" THEN 0 ELSE fresh)

Items ==
    [name : {"Example"}, fields : FieldKinds, types : SeqsUpTo(FieldTypes, MaxFields)]
      \cup {[name |-> "Example", fields |-> "Unit", types |-> <<>>]}

NoValue == Value("", 0)

GetterIdle ==
    /\ gt_pc = "source"
    /\ gt_item = [name |-> "Example", fields |-> "Unit", types |-> <<>>]
    /\ gt_gen = [name |-> "", inner_type |-> "none"]
    /\ gt_self = NoValue
    /\ gt_orig = NoValue
    /\ gt_calls = <<>>
    /\ gt_heap = 0

GetterInputs ==
    /\ gt_pc = "source"
    /\ gt_item \in Items
    /\ gt_gen = [name |-> "", inner_type |-> "none"]
    /\ gt_self = NoValue
    /\ gt_orig = NoValue
    /\ gt_calls = <<>>
    /\ gt_heap = 0

\* impl_getter(_, input): the generated item, or a compile error for a
\* struct without fields
GtExpand ==
    /\ gt_pc = "source"
    /\ IF first_ty(gt_item) = "none"
       THEN gt_pc' = "rejected" /\ UNCHANGED gt_gen
       ELSE gt_pc' = "expanded" /\ gt_gen' = gen(gt_item)
    /\ UNCHANGED <<redisVars, mwVars, apiVars, gt_item, gt_self, gt_orig, gt_calls, gt_heap>>

\* Example(value): a value of the generated struct; a String owns a buffer
\* when it is not empty, or when it is empty with spare capacity
GtBuild(content, spare) ==
    /\ gt_pc = "expanded"
    /\ content \in ValuesOf(gt_gen.inner_type)
    /\ spare => gt_gen.inner_type = "String" /\ content = ""
    /\ LET buf == IF gt_gen.inner_type = "String" /\ (content # "" \/ spare)
                  THEN gt_heap + 1 ELSE 0 IN
       /\ gt_self' = Value(content, buf)
       /\ gt_orig' = Value(content, buf)
       /\ gt_heap' = IF buf = 0 THEN gt_heap ELSE buf
    /\ gt_pc' = "built"
    /\ UNCHANGED <<redisVars, mwVars, apiVars, gt_item, gt_gen, gt_calls>>

\* example.inner(): &self, returns self.0.to_owned()
GtInner ==
    /\ gt_pc = "built"
    /\ Len(gt_calls) < MaxInnerCalls
    /\ LET out == to_owned(gt_self, gt_heap + 1) IN
       /\ gt_calls' = Append(gt_calls, out)
       /\ gt_heap' = IF out.buf = 0 THEN gt_heap ELSE out.buf
    /\ UNCHANGED <<redisVars, mwVars, apiVars, gt_pc, gt_item, gt_gen, gt_self, gt_orig>>

NextGetter ==
    \/ GtExpand
    \/ \E content \in ValuesOf("String") \cup ValuesOf("u32"), spare \in BOOLEAN :
          GtBuild(content, spare)
    \/ GtInner

ToolsIdle == MwIdle /\ ApiIdle /\ GetterIdle

\* call(req): the request's method and path are read, the inner service is
\* called and the boxed future is returned
MwCall(method, path) ==
    /\ mw_pc \in {"idle", "returned", "dropped"}
    /\ mw_n < MaxRequests
    /\ mw_n' = mw_n + 1
    /\ LET req == [method |-> method, path |-> path, match_info |-> <<>>] IN
       /\ mw_req' = req
       /\ mw_saved' = [method |-> get_method(req), path |-> get_path(req)]
    /\ mw_inner' = "none"
    /\ mw_pc' = "pending"
    /\ UNCHANGED <<redisVars, apiVars, getterVars, mw_metrics, mw_done>>

\* the inner service's future resolves
MwInnerCompletes(res) ==
    /\ mw_pc = "pending"
    /\ res \in InnerResults(mw_req)
    /\ mw_inner' = res
    /\ mw_pc' = "completed"
    /\ UNCHANGED <<redisVars, apiVars, getterVars, mw_n, mw_req, mw_saved, mw_metrics, mw_done>>

\* the rest of the async block after fut.await: calculate_metrics on the arm
\* of the result, then the result itself is returned
MwFinish ==
    /\ mw_pc = "completed"
    /\ LET obs == IF mw_inner.kind = "Ok"
                  THEN calculate_metrics(mw_inner.error, mw_inner.status,
                                         get_method(mw_inner.request),
                                         get_path(mw_inner.request))
                  ELSE calculate_metrics(mw_inner.error, mw_inner.error.status,
                                         mw_saved.method, mw_saved.path)
       IN  mw_metrics' = mw_metrics \o [n \in 1..Len(obs) |-> [req |-> mw_n, obs |-> obs[n]]]
    /\ mw_done' = Append(mw_done, [req |-> mw_n, inner |-> mw_inner, result |-> mw_inner])
    /\ mw_pc' = "returned"
    /\ UNCHANGED <<redisVars, apiVars, getterVars, mw_n, mw_req, mw_saved, mw_inner>>

\* the caller drops the future before the inner service has resolved (the
\* client went away): nothing after fut.await runs
MwDrop ==
    /\ mw_pc = "pending"
    /\ mw_pc' = "dropped"
    /\ UNCHANGED <<redisVars, apiVars, getterVars, mw_n, mw_req, mw_saved, mw_inner, mw_metrics, mw_done>>

NextMetrics ==
    \/ \E method \in Methods, path \in Paths : MwCall(method, path)
    \/ \E res \in InnerResults(mw_req) : MwInnerCompletes(res)
    \/ MwFinish
    \/ MwDrop

\* ------------------------------------------------- specifications
\* a pool that new has returned, every member connected
Constructed ==
    /\ replica_conf = "None"
    /\ pool_size_of \in [{"conf", "replica_conf"} -> 0..MaxPoolSize]
    /\ pool_size_of["conf"] >= 1
    /\ pool_size_of["replica_conf"] = 0
    /\ reconnect_max_attempts \in 0..MaxAttempts
    /\ reconnect_delay \in 0..MaxDelay
    /\ pool_size = [p \in Pools |-> pool_size_of["conf"]]
    /\ clients = [p \in Pools |->
                     RedisPool_new(IF p = "writer" THEN 0 ELSE pool_size_of["conf"],
                                   pool_size_of["conf"])]
    /\ built_from = [p \in Pools |-> "conf"]
    /\ new_pc = "ok"
    /\ new_result = "Ok"
    /\ pool_state = [p \in Pools |-> "owned"]
    /\ member = [p \in Pools |-> [i \in Slots |-> IF i \in Members(p) THEN "Connected" ELSE "Absent"]]
    /\ attempts = [p \in Pools |-> [i \in Slots |-> 0]]
    /\ waited = [p \in Pools |-> [i \in Slots |-> 0]]
    /\ join_handles = connect_handles("writer") \o connect_handles("reader")
    /\ available = TRUE
    /\ monitor = "off"
    /\ err_events = 0
    /\ ndisc = 0
    /\ seen_down = {}

Init == InitPool /\ RelayIdle /\ CloseIdle /\ UriIdle /\ ToolsIdle

\* the reconnect settings play no part in the relay: one value of each
InitRelay ==
    /\ Constructed
    /\ reconnect_max_attempts = MaxAttempts
    /\ reconnect_delay = MaxDelay
    /\ RelayIdle /\ CloseIdle /\ UriIdle /\ ToolsIdle

InitClose == Constructed /\ RelayIdle /\ CloseIdle /\ UriIdle /\ ToolsIdle

\* settings of every shape, nothing built yet
InitUri ==
    /\ InitPool
    /\ replica_conf = "None"
    /\ pool_size_of["conf"] = 1
    /\ reconnect_max_attempts = MaxAttempts
    /\ reconnect_delay = MaxDelay
    /\ RelayIdle
    /\ CloseIdle
    /\ UriInputs
    /\ ToolsIdle

\* no pool is involved: the settings are given and nothing is built
NoPool ==
    /\ InitPool
    /\ replica_conf = "None"
    /\ pool_size_of["conf"] = 1
    /\ reconnect_max_attempts = MaxAttempts
    /\ reconnect_delay = MaxDelay
    /\ RelayIdle
    /\ CloseIdle
    /\ UriIdle

InitMetrics == NoPool /\ ToolsIdle

InitCallApi == NoPool /\ ToolsIdle

\* the attribute on structs of every shape
InitGetter == NoPool /\ MwIdle /\ ApiIdle /\ GetterInputs

\* construction, member lifecycle and error monitor
SpecPool == Init /\ [][NextPool]_vars

\* subscriptions on a constructed pool
SpecRelay == InitRelay /\ [][NextRelay]_vars

\* one subscription from the call to the relay, with what its connection is sent
SpecWindow == InitRelay /\ [][NextWindow]_vars

\* close_connections on a constructed pool
SpecClose == InitClose /\ [][NextClose]_vars

\* the connection URL as a function of the settings
SpecUri == InitUri /\ [][NextUri]_vars

\* construction followed by close_connections
SpecLife == Init /\ [][NextLife]_vars

\* requests through the request-metrics middleware, one after the other
SpecMetrics == InitMetrics /\ [][NextMetrics]_vars

\* invocations of call_api, one after the other
SpecCallApi == InitCallApi /\ [][NextCallApi]_vars

\* expansion of impl_getter, a value of the generated struct, calls of inner()
SpecGetter == InitGetter /\ [][NextGetter]_vars

Spec == SpecPool

\* ------------------------------------------------- properties: construction
\* C1 (as claimed): when the reader set's instantiate fails after the writer
\* set was built, new returns a connection error and at that moment no member
\* connection of the writer set is live any more.
C1_WriterTornDownOnReaderFailure ==
    [][(new_pc = "reader_wait" /\ new_pc' = "err")
        => /\ new_result' = "RedisConnectionError"
           /\ \A i \in Members("writer") : member'["writer"][i] \notin LiveStates]_vars

\* the set whose instantiate returned the error
InstantiateFailed(p) == new_pc = "err" /\ wait_err(p)

\* C2 (as claimed): instantiate hands out a pool only with every member
\* connected, and once it has returned a connection error no member
\* connection of that set is live, connecting or reconnecting.
C2_InstantiateAllOrNothing ==
    /\ \A p \in Pools : pool_state[p] = "owned" /\ ndisc = 0
          => \A i \in Members(p) : member[p][i] = "Connected"
    /\ \A p \in Pools : InstantiateFailed(p)
          => new_result = "RedisConnectionError" /\ Live(p) = {}

\* ------------------------------------------------- properties: availability
\* C3: the availability flag starts true, only a step of the error monitor
\* changes it, and once false it is never true again.
C3_AvailabilityMonotone ==
    /\ available = TRUE
    /\ [][/\ (available' # available
                => monitor = "wait" /\ err_events' = err_events - 1)
          /\ (~available => ~available')]_vars

\* the flag is down and every member of both sets is connected again
C3_Witness ==
    /\ ~available
    /\ \A p \in Pools : \A i \in Members(p) : member[p][i] = "Connected"

\* C4: once the monitor has handled an event while either set was fully
\* disconnected, the availability flag reads false.
C4_DownAfterObservedDisconnect == seen_down # {} => ~available

\* the monitor saw the writer set alone fully disconnected
C4_Witness == seen_down = {"writer"} /\ ~available

\* ------------------------------------------------- properties: relay
IsString(m) == m.value.kind = "String"
\* a string payload that decodes as T
Decodes(m) == IsString(m) /\ from_str(m.value.text).ok
\* a string payload that does not decode as T
Malformed(m) == IsString(m) /\ ~from_str(m.value.text).ok
NullOrEmpty(m) == m.value = Null \/ m.value = String("")

Typed(k) == sub_pc[k] = "running" /\ sub_arg[k].kind = "typed"
AsStr(k) == sub_pc[k] = "running" /\ sub_arg[k].kind = "str"

\* what the consumer of call k has been handed or can still take
OnHandle(k) == got[k] \o queue[k]

\* C5: on a typed subscription whose handle is held, the tuples on the handle
\* are, one for one and in order, the received messages whose string payload
\* decodes: (message's channel, decoded value, a time not before the publish).
C5_ExactlyOneTuplePerDecodable ==
    \A k \in Calls : Typed(k) /\ handle[k] = "held" =>
        LET want == SelectSeq(recvd[k], Decodes) IN
        /\ Len(OnHandle(k)) = Len(want)
        /\ \A i \in 1..Len(want) :
              /\ OnHandle(k)[i].msg = want[i]
              /\ OnHandle(k)[i].tuple[1] = want[i].channel
              /\ OnHandle(k)[i].tuple[2] = from_str(want[i].value.text).value
              /\ OnHandle(k)[i].tuple[3] >= want[i].at

\* a consumer has taken the tuple of a message on "orders", stamped after a
\* later publish
C5_Witness ==
    \E k \in Calls :
        /\ Typed(k) /\ handle[k] = "held" /\ sub_arg[k].channel = "orders"
        /\ got[k] # <<>>
        /\ got[k][1].tuple[1] = "orders"
        /\ got[k][1].tuple[2] = 7
        /\ got[k][1].tuple[3] > got[k][1].msg.at

\* C6: on a typed subscription a string payload that does not decode is not
\* forwarded, the relay keeps running, and every decodable message received
\* after it is forwarded while the handle is held.
C6_MalformedDroppedRelayContinues ==
    \A k \in Calls : Typed(k) =>
        /\ relay_pc[k] = "recv"
        /\ \A i \in 1..Len(recvd[k]) : Malformed(recvd[k][i]) =>
              /\ \A n \in 1..Len(sent[k]) : sent[k][n].msg # recvd[k][i]
              /\ \A j \in (i + 1)..Len(recvd[k]) :
                    Decodes(recvd[k][j]) /\ handle[k] = "held"
                       => \E n \in 1..Len(OnHandle(k)) : OnHandle(k)[n].msg = recvd[k][j]

\* a malformed message was dropped and the next, well-formed one delivered
C6_Witness ==
    \E k \in Calls :
        /\ Typed(k) /\ handle[k] = "held"
        /\ Len(recvd[k]) = 2
        /\ recvd[k][1].value = String("x")
        /\ Decodes(recvd[k][2])
        /\ Len(OnHandle(k)) = 1
        /\ OnHandle(k)[1].msg = recvd[k][2]

\* C7 (as claimed): on either kind of subscription no message with a null or
\* empty-string payload results in a tuple.
C7_NullOrEmptyNeverForwarded ==
    \A k \in Calls : \A n \in 1..Len(sent[k]) : ~NullOrEmpty(sent[k][n].msg)

\* a is b with some elements left out, the rest in b's order
IsSubsequence(a, b) ==
    \E f \in [1..Len(a) -> 1..Len(b)] :
        /\ \A i \in 1..Len(a) : a[i] = b[f[i]]
        /\ \A i, j \in 1..Len(a) : i < j => f[i] < f[j]

MsgsOf(es) == [i \in 1..Len(es) |-> es[i].msg]

\* C8: the tuples a subscription delivers are those of a subsequence of the
\* messages its relay received, in the order received.
C8_OrderPreserved ==
    \A k \in Calls : IsSubsequence(MsgsOf(OnHandle(k)), recvd[k])

\* two tuples of one subscription were taken by the consumer while another
\* relay was running
C8_Witness ==
    \E k, j \in Calls :
        /\ k # j /\ relay_pc[j] = "recv" /\ recvd[j] # <<>>
        /\ Len(got[k]) = 2
        /\ got[k][1].msg.at < got[k][2].msg.at

\* a message the relay of kind `kind` forwards
Forwards(kind, m) == IF kind = "typed" THEN Decodes(m) ELSE IsString(m)

\* the number of messages call k's relay tried to forward
ForwardAttempts(k) ==
    LET F(m) == Forwards(sub_arg[k].kind, m) IN Len(SelectSeq(recvd[k], F))

\* C9: after the receive handle is dropped every forward attempt fails and is
\* only counted (nothing is queued), the relay stays in its loop, and the
\* other subscriptions still get every message they forward.
C9_DroppedHandleRelayContinues ==
    \A k \in Calls : handle[k] = "dropped" =>
        /\ relay_pc[k] = "recv"
        /\ queue[k] = <<>>
        /\ Len(sent[k]) + send_errs[k] = ForwardAttempts(k)
        /\ \A j \in Calls \ {k} : handle[j] = "held" =>
              /\ send_errs[j] = 0
              /\ Len(OnHandle(j)) = ForwardAttempts(j)

\* two forwards failed after the drop while another subscription got both
C9_Witness ==
    \E k, j \in Calls :
        /\ k # j
        /\ handle[k] = "dropped" /\ send_errs[k] = 2 /\ relay_pc[k] = "recv"
        /\ handle[j] = "held" /\ Len(got[j]) = 2

\* C10 (as claimed): a failed subscribe command makes the call return
\* SubscribeError, with no relay spawned, no handle returned and no retry.
C10_SubscribeFailureReturnsSubscribeError ==
    \A k \in Calls : sub_pc[k] = "failed" =>
        /\ sub_result[k] = "SubscribeError"
        /\ relay_pc[k] = "off"
        /\ handle[k] = "none"
        /\ sub_cmds[k] = 1

\* ------------------------------------------------- properties: relay loop
\* C11 (as claimed): a relay's loop is ended by nothing but the closing of its
\* message stream, and it has ended once recv() has reported the stream closed.
C11_RelayEndsWhenAndOnlyWhenStreamClosed ==
    \A k \in Calls :
        /\ relay_pc[k] = "ended" => closed_seen[k] > 0
        /\ closed_seen[k] > 0 => relay_pc[k] = "ended"

\* ------------------------------------------------- properties: close_connections
AllHandles == Pools \X Slots

\* the events of one call are, position by position: the call, the writer's
\* quit issued, the writer's quit completed, the reader's quit issued, the
\* reader's quit completed, then one await per recorded handle in recorded order
InCodeOrder(L) ==
    \A n \in 1..Len(L) :
        IF n = 1 THEN L[n].ev = "call"
        ELSE IF n = 2 THEN L[n].ev = "quit_start" /\ L[n].set = "writer"
        ELSE IF n = 3 THEN L[n].ev = "quit_end" /\ L[n].set = "writer"
        ELSE IF n = 4 THEN L[n].ev = "quit_start" /\ L[n].set = "reader"
        ELSE IF n = 5 THEN L[n].ev = "quit_end" /\ L[n].set = "reader"
        ELSE /\ L[n].ev = "await"
             /\ n - 5 <= Len(L[1].handle)
             /\ L[n].handle = L[1].handle[n - 5]

\* C12: in every call of close_connections the writer set's quit completes
\* (with or without error) before the reader set's quit is issued, the
\* reader's quit completes before any join handle is awaited, and the handles
\* are awaited in the order they were recorded.
C12_CloseOrder == \A c \in 1..Len(close_log) : InCodeOrder(close_log[c])

\* a call on two sets of two members has awaited all four handles
C12_Witness ==
    /\ close_log # <<>>
    /\ Len(close_log[1]) = 9
    /\ close_log[1][6].handle = <<"writer", 1>>
    /\ close_log[1][9].handle = <<"reader", 2>>

\* the events of log L that satisfy the test
HasEvent(L, e, p) == \E n \in 1..Len(L) : L[n].ev = e /\ L[n].set = p

\* C13: close_connections is best effort: every call that has returned has
\* quit both sets and awaited every recorded handle, whatever the results of
\* the quits and of the awaits were, and it never returns early on an error.
C13_CloseBestEffort ==
    /\ close_pc # "returning"
    /\ \A c \in 1..Len(close_snap) :
          LET L == close_log[c] IN
          /\ HasEvent(L, "quit_end", "writer")
          /\ HasEvent(L, "quit_end", "reader")
          /\ \A j \in 1..Len(L[1].handle) :
                \E n \in 1..Len(L) : L[n].ev = "await" /\ L[n].handle = L[1].handle[j]

\* a returned call whose writer quit failed, and one of whose awaits, not
\* the last, ended in an error
C13_Witness ==
    /\ close_snap # <<>>
    /\ LET L == close_log[1] IN
       /\ L[3].res = "Err"
       /\ \E n \in 6..(Len(L) - 1) : L[n].res \in {"ConnectionError", "JoinError"}
       /\ L[Len(L)].res = "Ok"

\* C14: when close_connections is called twice, the second call returns
\* without a panic, awaits no handle (none is ever awaited twice, the list
\* being empty) and leaves the pool as the first call left it.
C14_CloseTwice ==
    /\ close_pc # "panicked"
    /\ \A h \in AllHandles : AwaitedCount(h) <= 1
    /\ Len(close_log) = 2 => close_log[2][1].handle = <<>>
    /\ Len(close_snap) = 2 =>
          /\ Len(close_log[2]) = 5
          /\ close_snap[2] = close_snap[1]

\* the second call has returned after the first awaited four handles
C14_Witness ==
    /\ Len(close_snap) = 2
    /\ Len(close_log[1]) = 9
    /\ close_snap[2].join_handles = <<>>

\* ------------------------------------------------- properties: connection URL
\* C16: with cluster_enabled false the URL built by instantiate and by
\* get_config is "redis://" host ":" port "/" partition, and settings that
\* differ only in cluster_urls give the same URL.
C16_StandaloneUrl ==
    ~uri_conf.cluster_enabled =>
        /\ uri_pc # "idle" =>
              LET want == "redis://" \o uri_conf.host \o ":" \o ToString(uri_conf.port)
                             \o "/" \o ToString(uri_conf.partition)
              IN  uri_out.instantiate = want /\ uri_out.get_config = want
        /\ uri_pc = "rebuilt" => uri_other = uri_out

\* the URL of a standalone server on partition 3 with three cluster urls
\* set was built, and built again from settings with none
C16_Witness ==
    /\ uri_pc = "rebuilt"
    /\ uri_conf.host = "localhost" /\ uri_conf.port = 30001 /\ uri_conf.partition = 3
    /\ ~uri_conf.cluster_enabled
    /\ uri_conf.cluster_urls = <<"a:1", "b:2", "c:3">>
    /\ uri_out.instantiate = "redis://localhost:30001/3"
    /\ uri_other.get_config = "redis://localhost:30001/3"

\* "node=" url for each url, with "&" in between
RECURSIVE node_params(_)
node_params(urls) ==
    IF urls = <<>> THEN ""
    ELSE IF Len(urls) = 1 THEN "node=" \o urls[1]
    ELSE "node=" \o urls[1] \o "&" \o node_params(Tail(urls))

\* C17 (as claimed): with cluster_enabled true and node list [a, b, c] the URL
\* is redis-cluster://host:port?node=a&node=b&node=c, one node= parameter per
\* url in list order, a single "&" between them and none at either end.
C17_ClusterUrlNodeParams ==
    uri_conf.cluster_enabled /\ uri_pc # "idle" =>
        LET want == "redis-cluster://" \o uri_conf.host \o ":" \o ToString(uri_conf.port)
                       \o "?" \o node_params(uri_conf.cluster_urls)
        IN  uri_out.instantiate = want /\ uri_out.get_config = want

\* ------------------------------------------------- properties: the two sets
Range(f) == {f[x] : x \in DOMAIN f}

\* C18: a pool that new has returned has a writer set built from conf and a
\* reader set built from replica_conf when one was given and from conf
\* otherwise; each set has the pool_size of its settings as many connections
\* of its own, so without a replica there are 2 * pool_size connections, and
\* no connection belongs to both sets.
C18_TwoDistinctPools ==
    new_pc = "ok" =>
        /\ built_from["writer"] = "conf"
        /\ built_from["reader"] = (IF replica_conf = "Some" THEN "replica_conf" ELSE "conf")
        /\ \A p \in Pools :
              /\ pool_size[p] = pool_size_of[built_from[p]]
              /\ Cardinality(Range(clients[p])) = pool_size[p]
        /\ Range(clients["writer"]) \cap Range(clients["reader"]) = {}
        /\ replica_conf = "None" =>
              Cardinality(Range(clients["writer"]) \cup Range(clients["reader"]))
                 = 2 * pool_size_of["conf"]

\* new returned a pool for a conf of pool_size 1 and a replica_conf of pool_size 2
C18_Witness ==
    /\ new_pc = "ok"
    /\ replica_conf = "Some"
    /\ pool_size_of["conf"] = 1 /\ pool_size_of["replica_conf"] = 2
    /\ Len(clients["writer"]) = 1 /\ Len(clients["reader"]) = 2

\* C19 (as claimed): the two sets are instantiated in parallel: while the
\* writer set's wait for its connections is pending, the start of the reader
\* set's connections does not wait for it.
C19_ReaderStartDoesNotWaitForWriter ==
    new_pc = "writer_wait" /\ ~wait_err("writer") => ENABLED NewInstantiateReader

\* ------------------------------------------------- properties: configuration
\* C21 (as claimed): when the connection URL does not parse, construction
\* fails with ConfigurationError, and no connection has been attempted.
C21_ParseFailureIsConfigurationError ==
    uri_parsed \notin {"none", "Ok"} =>
        /\ uri_parsed = "ConfigurationError"
        /\ \A p \in Pools, i \in Slots : member[p][i] = "Absent"

\* C23 (as claimed): settings that construction accepts and goes on to
\* connect with have a non-empty cluster_urls whenever cluster_enabled is true.
C23_ClusterNeedsNodes ==
    uri_parsed = "Ok" /\ uri_conf.cluster_enabled => uri_conf.cluster_urls # <<>>

\* C27: the configuration built by instantiate and by get_config has RESP3
\* whenever use_legacy_version is false, tracing enabled, blocking commands
\* answered with an error, and a constant reconnect policy with the settings'
\* reconnect_max_attempts and reconnect_delay, whatever the other fields are.
C27_DriverConfig ==
    uri_parsed = "Ok" =>
        \A f \in {"instantiate", "get_config"} :
            /\ ~uri_conf.use_legacy_version => uri_config[f].version = "RESP3"
            /\ uri_config[f].tracing = TRUE
            /\ uri_config[f].blocking = "Error"
            /\ uri_config[f].reconnect_policy.kind = "constant"
            /\ uri_config[f].reconnect_policy.max_attempts = uri_conf.reconnect_max_attempts
            /\ uri_config[f].reconnect_policy.delay = uri_conf.reconnect_delay

\* the configuration for cluster settings with the legacy version asked for,
\* reconnect_max_attempts 0 and a delay of 250 ms was built
C27_Witness ==
    /\ uri_parsed = "Ok"
    /\ uri_conf.cluster_enabled /\ uri_conf.use_legacy_version
    /\ uri_conf.reconnect_max_attempts = 0 /\ uri_conf.reconnect_delay = 250
    /\ uri_config["instantiate"].version = "RESP2"
    /\ uri_config["get_config"].reconnect_policy = new_constant(0, 250)

\* ------------------------------------------------- properties: subscriptions
\* C22: on a raw-string subscription whose handle is held, the tuples on the
\* handle are, one for one and in order, the received messages with a string
\* payload: (message's channel, the payload text as it is), whatever the text.
C22_AsStrForwardsEveryString ==
    \A k \in Calls : AsStr(k) /\ handle[k] = "held" =>
        LET want == SelectSeq(recvd[k], IsString) IN
        /\ Len(OnHandle(k)) = Len(want)
        /\ \A i \in 1..Len(want) :
              /\ OnHandle(k)[i].msg = want[i]
              /\ OnHandle(k)[i].tuple = <<want[i].channel, want[i].value.text>>

\* a raw-string consumer has taken a text that is not JSON and then a JSON number
C22_Witness ==
    \E k \in Calls :
        /\ AsStr(k) /\ handle[k] = "held"
        /\ Len(got[k]) = 2
        /\ got[k][1].tuple = <<sub_arg[k].channel, "x">>
        /\ got[k][2].tuple = <<sub_arg[k].channel, "7">>

\* C28 (as claimed): the handle returned for channel c only ever yields
\* tuples whose channel name is c.
C28_HandleYieldsOnlyItsChannel ==
    \A k \in Calls : \A n \in 1..Len(OnHandle(k)) :
        OnHandle(k)[n].tuple[1] = sub_arg[k].channel

\* C29 (as claimed): once a call's subscribe command has succeeded, every
\* string message its connection is sent has reached the relay or is waiting
\* in its message stream: none is missed before the stream is taken and none
\* is skipped when the relay falls behind.
C29_NoMessageLostBeforeRelay ==
    \A k \in Calls : sub_pc[k] = "running" =>
        SelectSeq(arrived[k], IsString) = SelectSeq(recvd[k] \o stream[k], IsString)

\* the handles connect_pool returned for the writer set, then the reader set's
HandlesAsBuilt ==
    LET w == pool_size_of[writer_conf]
        r == pool_size_of[reader_conf]
    IN  [n \in 1..(w + r) |-> IF n <= w THEN <<"writer", n>> ELSE <<"reader", n - w>>]

\* C30: from the return of a successful new until the drain of the first
\* close_connections, join_handles is the writer set's connect handles
\* followed by the reader set's, one per member and no other; when
\* close_connections has returned the list is empty and every one of those
\* handles has been awaited exactly once.
C30_JoinHandles ==
    /\ (new_pc = "ok" /\ close_calls = 0 /\ close_pc \in {"idle", "quit1", "quit2"}) =>
            /\ join_handles = HandlesAsBuilt
            /\ Len(join_handles) = pool_size_of[writer_conf] + pool_size_of[reader_conf]
            /\ \A m, n \in 1..Len(join_handles) : join_handles[m] = join_handles[n] => m = n
    /\ close_pc = "done" =>
            /\ join_handles = <<>>
            /\ \A n \in 1..Len(HandlesAsBuilt) : AwaitedCount(HandlesAsBuilt[n]) = 1

\* a pool with a replica of another size was built, closed, and closed again
C30_Witness ==
    /\ replica_conf = "Some"
    /\ pool_size_of["conf"] = 2 /\ pool_size_of["replica_conf"] = 1
    /\ close_pc = "done" /\ close_calls = 2
    /\ join_handles = <<>>
    /\ close_log[1][1].handle = << <<"writer", 1>>, <<"writer", 2>>, <<"reader", 1>> >>
    /\ AwaitedCount(<<"reader", 1>>) = 1

\* the observations made for request n
ObservedFor(n) == SelectSeq(mw_metrics, LAMBDA m : m.req = n)

\* the four fields the middleware observes for an inner result: the response's
\* own request and status on Ok, the request as it came in and the status of
\* the error's response on Err; the code is the error's text, or SUCCESS
ExpectedMetrics(saved, inner) ==
    IF inner.kind = "Ok"
    THEN [method |-> inner.request.method, path |-> get_path(inner.request),
          status |-> inner.status,
          code |-> IF inner.error = None THEN "SUCCESS" ELSE inner.error.text]
    ELSE [method |-> saved.method, path |-> saved.path,
          status |-> inner.error.status, code |-> inner.error.text]

\* C24: a request whose inner future has not resolved has no observation; a
\* request whose future has returned has exactly one, with the method, path,
\* status and code of its outcome, on Ok and on Err alike; and the result
\* returned is the inner service's result.
C24_MetricsOncePerRequest ==
    /\ \A n \in 1..mw_n : Len(ObservedFor(n)) <= 1
    /\ mw_pc \in {"pending", "dropped"} => ObservedFor(mw_n) = <<>>
    /\ Len(mw_done) <= mw_n
    /\ \A d \in 1..Len(mw_done) :
          /\ Len(ObservedFor(mw_done[d].req)) = 1
          /\ mw_done[d].result = mw_done[d].inner
    /\ mw_pc = "returned" =>
          /\ mw_done[Len(mw_done)].req = mw_n
          /\ mw_done[Len(mw_done)].inner = mw_inner
          /\ ObservedFor(mw_n)[1].obs = ExpectedMetrics(mw_saved, mw_inner)

\* two requests have returned, the first with an error and the second with a
\* response, and each has its one observation
C24_Witness ==
    /\ mw_pc = "returned" /\ mw_n = 2 /\ Len(mw_done) = 2
    /\ mw_done[1].result.kind = "Err"
    /\ mw_done[2].result.kind = "Ok"
    /\ mw_metrics[1].obs.code = "Unauthorized" /\ mw_metrics[1].obs.status = 401
    /\ mw_metrics[2].obs = [method |-> "GET", path |-> "/ride/:rideId",
                             status |-> 200, code |-> "SUCCESS"]

\* C25: an invocation of call_api calls send() at most once, whatever the
\* outcome, and observes at most one request; when it returns, it returns Ok
\* only if its one request was answered with a success status, and otherwise
\* an error of CallAPIError: in particular a transport failure or a
\* non-success status gives ExternalAPICallError without another request.
C25_SingleShot ==
    api_in.fn = "call_api" =>
        /\ api_sends <= 1
        /\ Len(api_observed) <= api_sends
        /\ api_pc \in {"sent", "body", "dropped"} => api_sends = 1 /\ api_result = Through
        /\ api_pc = "done" =>
              /\ api_result.kind \in {"Ok", "Err"}
              /\ api_result.kind = "Ok" =>
                    /\ api_sends = 1
                    /\ api_resp.kind = "Ok"
                    /\ api_resp.status \in 200..299
              /\ api_result.kind = "Err" => api_result.error \in CallAPIErrors
              /\ (api_resp.kind = "Err" \/ (api_resp.kind = "Ok" /\ api_resp.status \notin 200..299)) =>
                    /\ api_result.kind = "Err"
                    /\ api_result.error = "ExternalAPICallError"
                    /\ api_sends = 1

\* the second invocation, of call_api, was answered with a redirect, which
\* is returned as an error after its one request
C25_Witness ==
    /\ api_in.fn = "call_api"
    /\ api_n = 2 /\ api_pc = "done" /\ api_sends = 1
    /\ api_resp.kind = "Ok" /\ api_resp.status = 301
    /\ api_observed = <<"301">>
    /\ api_result = Err("ExternalAPICallError", "301 Moved Permanently")

\* C26: the generated struct wraps the type of the first field of the struct
\* under the attribute; every call of inner() on a value of it returns a
\* value equal to the field the value was built with, whatever that is, and
\* the value itself stays as it was built.
C26_InnerReturnsField ==
    /\ gt_pc \in {"expanded", "built"} => gt_gen.inner_type = gt_item.types[1]
    /\ gt_pc = "built" =>
          /\ gt_self = gt_orig
          /\ \A n \in 1..Len(gt_calls) : eq(gt_calls[n], gt_orig)
          /\ \A m, n \in 1..Len(gt_calls) : eq(gt_calls[m], gt_calls[n])

\* inner() was called twice on Example("Example") generated from a struct
\* with two fields: two copies of the text, each in a buffer of its own
C26_Witness ==
    /\ gt_pc = "built"
    /\ gt_item.types = <<"String", "u32">>
    /\ gt_self = Value("Example", 1)
    /\ gt_calls = <<Value("Example", 2), Value("Example", 3)>>

====
